---- MODULE Spec2Model ----
(***************************************************************************)
(* Directory-change reconciliation of Explorer++'s ShellBrowser            *)
(* (ShellBrowser/DirectoryModificationHandler.cpp).                        *)
(*                                                                         *)
(* The producer (directory watcher) calls FilesModified, which appends to  *)
(* m_AlteredList and arms a 200 ms timer.  The timer's TimerProc sends     *)
(* WM_USER_FILESADDED, whose handler runs DirectoryAltered on the UI       *)
(* thread: it walks m_AlteredList, dispatches every event of the current   *)
(* folder to OnFileAdded / OnFileModified / OnFileRemoved /                *)
(* OnFileRenamedOldName / OnFileRenamedNewName, clears the list and        *)
(* resolves m_FileSelectionList.                                           *)
(*                                                                         *)
(* Configuration modelled: no filter applied (IsFileFiltered is FALSE),    *)
(* no grouping, no dropped files.  The list view is the set of internal    *)
(* ids it shows; a lookup by name that matches several rows may return any *)
(* of them (row order is not modelled).                                    *)
(***************************************************************************)
EXTENDS Integers, Sequences, FiniteSets, TLC

\* ---------------------------------------------------------------- bounds
MaxEvents == 4          \* FilesModified calls in one run of Spec
MaxEpochEvents == 3     \* FilesModified calls in one run of SpecEpoch
MaxSelectEvents == 3    \* FilesModified calls in one run of SpecSelect
MaxHistoryEvents == 3   \* FilesModified calls in one run of SpecHistory
MaxAddRemoveEvents == 4 \* FilesModified calls in one run of SpecAddRemove, SpecSizes
MaxSize == 2            \* file sizes on disk are 1..MaxSize
MaxEpoch == 2           \* m_uniqueFolderId ranges over 1..MaxEpoch
MaxRequests == 2        \* selection requests in one run
MaxConvergeEvents == 4  \* FilesModified calls in one run of SpecConverge
MaxLiveEvents == 3      \* FilesModified calls in one run of SpecLive
MaxRenameEvents == 5    \* FilesModified calls in one run of SpecRename
MaxTwoEvents == 3       \* FilesModified calls in one run of SpecTwo
MaxOtherItems == 2      \* internal ids of the items of a second ShellBrowser

Names == {"a", "b"}
Sizes == 1 .. MaxSize
Absent == -1        \* INVALID_HANDLE_VALUE / FAILED(hr): the name does not resolve
NoItem == -1        \* "-1": no list-view index / no internal index

Actions == {"ADDED", "MODIFIED", "REMOVED", "RENAMED_OLD_NAME", "RENAMED_NEW_NAME"}

\* ------------------------------------------------- 64-bit unsigned values
\* ULARGE_INTEGER.QuadPart: four 16-bit limbs, least significant first;
\* addition and subtraction wrap modulo 2^64 as unsigned arithmetic does.
Limb == 2 ^ 16

U64(n) == << n % Limb, (n \div Limb) % Limb, 0, 0 >>

U64Zero == U64(0)

RECURSIVE U64AddFrom(_, _, _, _)
U64AddFrom(x, y, i, carry) ==
    IF i > 4 THEN << >>
    ELSE LET s == x[i] + y[i] + carry
         IN  << s % Limb >> \o U64AddFrom(x, y, i + 1, s \div Limb)

U64Add(x, y) == U64AddFrom(x, y, 1, 0)

RECURSIVE U64SubFrom(_, _, _, _)
U64SubFrom(x, y, i, borrow) ==
    IF i > 4 THEN << >>
    ELSE LET d == x[i] - y[i] - borrow
         IN  << d % Limb >> \o U64SubFrom(x, y, i + 1, IF d < 0 THEN 1 ELSE 0)

U64Sub(x, y) == U64SubFrom(x, y, 1, 0)

\* ----------------------------------------------------------------- state
VARIABLES
    fs,                     \* the watched directory on disk: name -> size or Absent
    m_uniqueFolderId,       \* the current folder index (watch epoch)
    m_AlteredList,          \* queued AlteredFile_t {dwAction, szFileName, iFolderIndex}
    timerSet,               \* the debounce timer is armed
    m_csDirectoryAltered,   \* owner of the critical section: "free" or "consumer"
    pc,                     \* UI thread: "idle", "signalled" (TimerProc ran), "loop"
    itr,                    \* position of DirectoryAltered's loop in m_AlteredList
    m_itemInfoMap,          \* internal id -> [name, size]
    itemIdCounter,          \* next internal id
    awaitingAddList,        \* ids added to the map, not yet in the list view
    listView,               \* ids shown by the list view
    selected,               \* ids with LVIS_SELECTED
    m_FilesAdded,           \* names whose add could not be resolved
    totalDirSize,           \* m_directoryState.totalDirSize (U64)
    fileSelectionSize,      \* m_directoryState.fileSelectionSize (U64)
    g_bNewFileRenamed,      \* global: the renamed file was a pending add
    g_iRenamedItem,         \* global: internal id awaiting its new name, or -1
    m_FileSelectionList,    \* names to select once they are in the list view
    submitsLeft,            \* FilesModified calls the run still makes
    nRequested,             \* selection requests so far
    selectCalls,            \* name -> number of ListViewHelper::SelectItem calls
    focusCalls,             \* ListViewHelper::FocusItem calls of the last batch
    recording,              \* the run keeps the history below
    handled                 \* history: the events the loop has been at, in order

vars == << fs, m_uniqueFolderId, m_AlteredList, timerSet, m_csDirectoryAltered,
           pc, itr, m_itemInfoMap, itemIdCounter, awaitingAddList, listView,
           selected, m_FilesAdded, totalDirSize, fileSelectionSize,
           g_bNewFileRenamed, g_iRenamedItem, m_FileSelectionList,
           submitsLeft, nRequested, selectCalls, focusCalls,
           recording, handled >>

ingressVars == << m_AlteredList, timerSet, m_csDirectoryAltered, pc, itr, submitsLeft,
                 recording >>
storeVars == << m_itemInfoMap, itemIdCounter, awaitingAddList, listView, selected,
                totalDirSize, fileSelectionSize >>
renameVars == << g_bNewFileRenamed, g_iRenamedItem >>
selectionVars == << m_FileSelectionList, nRequested, selectCalls, focusCalls >>

\* The ShellBrowser after construction, showing an empty folder.
Constructed ==
    /\ fs = [n \in Names |-> Absent]
    /\ m_uniqueFolderId = 1
    /\ m_AlteredList = << >>
    /\ timerSet = FALSE
    /\ m_csDirectoryAltered = "free"
    /\ pc = "idle"
    /\ itr = 1
    /\ m_itemInfoMap = << >>
    /\ itemIdCounter = 1
    /\ awaitingAddList = << >>
    /\ listView = {}
    /\ selected = {}
    /\ m_FilesAdded = << >>
    /\ totalDirSize = U64Zero
    /\ fileSelectionSize = U64Zero
    /\ g_bNewFileRenamed = FALSE
    /\ g_iRenamedItem = NoItem
    /\ m_FileSelectionList = << >>
    /\ nRequested = 0
    /\ selectCalls = [n \in Names |-> 0]
    /\ focusCalls = 0
    /\ handled = << >>

Init == Constructed /\ submitsLeft = MaxEvents /\ recording = FALSE

\* ------------------------------------------------------------ environment
\* The directory changes on disk independently of the events.  Only the
\* handlers of ADDED, MODIFIED and RENAMED_NEW_NAME query the disk, and only
\* for the name of their event, so a change is taken when the loop is about to
\* run such a handler: every query can find the name absent or of any size.
FsChange ==
    /\ pc = "loop" /\ itr <= Len(m_AlteredList)
    /\ m_AlteredList[itr].iFolderIndex = m_uniqueFolderId
    /\ m_AlteredList[itr].dwAction \in {"ADDED", "MODIFIED", "RENAMED_NEW_NAME"}
    /\ \E v \in Sizes \cup {Absent} :
          /\ fs[m_AlteredList[itr].szFileName] # v
          /\ fs' = [fs EXCEPT ![m_AlteredList[itr].szFileName] = v]
    /\ UNCHANGED << m_uniqueFolderId, ingressVars, storeVars, m_FilesAdded,
                    renameVars, selectionVars, handled >>

\* As FsChange, for runs in which file sizes play no part: the name of the
\* event the loop is at appears on disk (with the one size MaxSize) or vanishes.
FsPresence ==
    /\ pc = "loop" /\ itr <= Len(m_AlteredList)
    /\ m_AlteredList[itr].iFolderIndex = m_uniqueFolderId
    /\ m_AlteredList[itr].dwAction \in {"ADDED", "MODIFIED", "RENAMED_NEW_NAME"}
    /\ fs' = [fs EXCEPT ![m_AlteredList[itr].szFileName] =
                           IF @ = Absent THEN MaxSize ELSE Absent]
    /\ UNCHANGED << m_uniqueFolderId, ingressVars, storeVars, m_FilesAdded,
                    renameVars, selectionVars, handled >>

\* ------------------------------------------------ item store operations
\* The fields of the ShellBrowser that the handlers read and write, as one value.
DirState ==
    [ map      |-> m_itemInfoMap,
      ctr      |-> itemIdCounter,
      awaiting |-> awaitingAddList,
      list     |-> listView,
      sel      |-> selected,
      total    |-> totalDirSize,
      selSize  |-> fileSelectionSize ]

SetDirState(ds) ==
    /\ m_itemInfoMap' = ds.map
    /\ itemIdCounter' = ds.ctr
    /\ awaitingAddList' = ds.awaiting
    /\ listView' = ds.list
    /\ selected' = ds.sel
    /\ totalDirSize' = ds.total
    /\ fileSelectionSize' = ds.selSize

Range(s) == { s[i] : i \in DOMAIN s }

MapPut(map, id, item) ==
    [ i \in DOMAIN map \cup {id} |-> IF i = id THEN item ELSE map[i] ]

MapErase(map, id) == [ i \in DOMAIN map \ {id} |-> map[i] ]

\* The sequence without its first element equal to x (std::list::erase(itr)).
RECURSIVE EraseFirst(_, _)
EraseFirst(s, x) ==
    IF s = << >> THEN << >>
    ELSE IF Head(s) = x THEN Tail(s)
    ELSE << Head(s) >> \o EraseFirst(Tail(s), x)

\* AddItemInternal: a fresh internal id, the item in the map and in the list
\* of awaiting items; the size joins the directory total with the item.
AddItemInternal(ds, name, size) ==
    [ ds EXCEPT !.map = MapPut(@, ds.ctr, [name |-> name, size |-> size]),
                !.ctr = @ + 1,
                !.awaiting = Append(@, ds.ctr),
                !.total = U64Add(@, U64(size)) ]

\* InsertAwaitingItems: every awaiting item goes into the list view in one call.
InsertAwaitingItems(ds) ==
    [ ds EXCEPT !.list = @ \cup Range(ds.awaiting),
                !.awaiting = << >> ]

\* RemoveItem: the item leaves the map and the list view; its size leaves the
\* directory total and, when it was selected, the selection total.
RemoveItem(ds, id) ==
    LET size == U64(ds.map[id].size)
    IN  [ ds EXCEPT !.total = U64Sub(@, size),
                    !.selSize = IF id \in ds.sel THEN U64Sub(@, size) ELSE @,
                    !.map = MapErase(@, id),
                    !.list = @ \ {id},
                    !.sel = @ \ {id} ]

\* LocateFileItemIndex: the list-view rows showing `name`; {NoItem} when none.
LocateFileItemIndex(ds, name) ==
    LET rows == { i \in ds.list : i \in DOMAIN ds.map /\ ds.map[i].name = name }
    IN  IF rows = {} THEN {NoItem} ELSE rows

\* LocateFileItemInternalIndex: the lParam of the row LocateFileItemIndex finds.
LocateFileItemInternalIndex(ds, name) == LocateFileItemIndex(ds, name)

\* GetItemInternalIndexForPidl: the map entries whose pidl is that of `name`.
GetItemInternalIndexForPidl(ds, name) ==
    LET ids == { i \in DOMAIN ds.map : ds.map[i].name = name }
    IN  IF ids = {} THEN {NoItem} ELSE ids

\* UnfilterItem: the item is revealed in the list view.
UnfilterItem(ds, id) == [ ds EXCEPT !.list = @ \cup {id} ]

\* SelectItem: the row gets LVIS_SELECTED; a row newly selected adds its size
\* to the selection total.
SelectItem(ds, id) ==
    IF id \in ds.sel THEN ds
    ELSE [ ds EXCEPT !.sel = @ \cup {id},
                     !.selSize = U64Add(@, U64(ds.map[id].size)) ]

\* ------------------------------------------------------------- handlers
\* What the event handlers read and write: the directory state, m_FilesAdded
\* and the two globals.
HState ==
    [ ds     |-> DirState,
      added  |-> m_FilesAdded,
      flag   |-> g_bNewFileRenamed,
      marker |-> g_iRenamedItem ]

SetHState(h) ==
    /\ SetDirState(h.ds)
    /\ m_FilesAdded' = h.added
    /\ g_bNewFileRenamed' = h.flag
    /\ g_iRenamedItem' = h.marker

\* OnFileAdded.  stat: what SHParseDisplayName finds for the name (a size, or
\* Absent); infoOk: AddItemInternal obtained the item's information (it does
\* not when the file vanished after the name was parsed).
OnFileAdded(h, szFileName, stat, infoOk) ==
    IF stat # Absent
    THEN LET added == IF infoOk THEN AddItemInternal(h.ds, szFileName, stat)
                      ELSE h.ds
         IN  [ h EXCEPT !.ds = InsertAwaitingItems(added) ]
    ELSE [ h EXCEPT !.added = Append(@, szFileName) ]

\* OnFileRemoved as it would be with the test of bFound inverted (line 277
\* reading `if (bFound)`).
OnFileRemoved_TestInverted(h, szFileName, iItemInternal) ==
    IF szFileName \in Range(h.added)
    THEN LET erased == [ h EXCEPT !.added = EraseFirst(@, szFileName) ]
         IN  IF iItemInternal # NoItem
             THEN [ erased EXCEPT !.ds = RemoveItem(@, iItemInternal) ]
             ELSE erased
    ELSE h

\* OnFileRemoved.  iItemInternal: the result of LocateFileItemInternalIndex.
OnFileRemoved(h, szFileName, iItemInternal) ==
    IF szFileName \in Range(h.added)
    THEN [ h EXCEPT !.added = EraseFirst(@, szFileName) ]
    ELSE IF iItemInternal # NoItem
         THEN [ h EXCEPT !.ds = RemoveItem(@, iItemInternal) ]
         ELSE h

\* The first awaiting item named FileName, or NoItem.
RECURSIVE AwaitingItemNamed(_, _, _)
AwaitingItemNamed(map, awaiting, FileName) ==
    IF awaiting = << >> THEN NoItem
    ELSE IF map[Head(awaiting)].name = FileName THEN Head(awaiting)
    ELSE AwaitingItemNamed(map, Tail(awaiting), FileName)

\* OnFileModified as it would be without the zeroing of the stored size when
\* the file is gone (lines 454-455 left out).
OnFileModified_KeepsSizeOfMissingFile(h, FileName, iItem, stat) ==
    LET ds == h.ds
        iItemInternal ==
            IF iItem = NoItem
            THEN AwaitingItemNamed(ds.map, ds.awaiting, FileName)
            ELSE iItem
        isSelected == iItem \in ds.sel
        old == U64(ds.map[iItemInternal].size)
        subtracted ==
            [ ds EXCEPT !.total = U64Sub(@, old),
                        !.selSize = IF isSelected THEN U64Sub(@, old) ELSE @ ]
    IN  IF iItemInternal = NoItem THEN h
        ELSE IF stat # Absent
        THEN [ h EXCEPT !.ds =
                 [ subtracted EXCEPT
                     !.map[iItemInternal] = [name |-> FileName, size |-> stat],
                     !.total = U64Add(@, U64(stat)),
                     !.selSize = IF isSelected THEN U64Add(@, U64(stat)) ELSE @ ] ]
        ELSE [ h EXCEPT !.ds = subtracted ]

\* OnFileModified as it would be without the subtraction of the stored size
\* before the file is queried again (lines 379-390 left out).
OnFileModified_CountsSizeTwice(h, FileName, iItem, stat) ==
    LET ds == h.ds
        iItemInternal ==
            IF iItem = NoItem
            THEN AwaitingItemNamed(ds.map, ds.awaiting, FileName)
            ELSE iItem
        isSelected == iItem \in ds.sel
    IN  IF iItemInternal = NoItem THEN h
        ELSE IF stat # Absent
        THEN [ h EXCEPT !.ds =
                 [ ds EXCEPT
                     !.map[iItemInternal] = [name |-> FileName, size |-> stat],
                     !.total = U64Add(@, U64(stat)),
                     !.selSize = IF isSelected THEN U64Add(@, U64(stat)) ELSE @ ] ]
        ELSE [ h EXCEPT !.ds = [ ds EXCEPT !.map[iItemInternal].size = 0 ] ]

\* OnFileModified.  iItem: the result of LocateFileItemIndex; stat: what
\* FindFirstFile finds for the name.
OnFileModified(h, FileName, iItem, stat) ==
    LET ds == h.ds
        iItemInternal ==
            IF iItem = NoItem
            THEN AwaitingItemNamed(ds.map, ds.awaiting, FileName)
            ELSE iItem
        isSelected == iItem \in ds.sel
        old == U64(ds.map[iItemInternal].size)
        subtracted ==
            [ ds EXCEPT !.total = U64Sub(@, old),
                        !.selSize = IF isSelected THEN U64Sub(@, old) ELSE @ ]
    IN  IF iItemInternal = NoItem THEN h
        ELSE IF stat # Absent
        THEN [ h EXCEPT !.ds =
                 [ subtracted EXCEPT
                     !.map[iItemInternal] = [name |-> FileName, size |-> stat],
                     !.total = U64Add(@, U64(stat)),
                     !.selSize = IF isSelected THEN U64Add(@, U64(stat)) ELSE @ ] ]
        ELSE [ h EXCEPT !.ds =
                 [ subtracted EXCEPT !.map[iItemInternal].size = 0 ] ]

\* OnFileRenamedOldName as it would be without the erase of the pending add
\* (line 469 left out).
OnFileRenamedOldName_KeepsPendingAdd(h, szFileName, internalIndex) ==
    IF szFileName \in Range(h.added)
    THEN [ h EXCEPT !.flag = TRUE ]
    ELSE IF internalIndex # NoItem
         THEN [ h EXCEPT !.marker = internalIndex ]
         ELSE h

\* OnFileRenamedOldName.  internalIndex: the result of
\* GetItemInternalIndexForPidl.
OnFileRenamedOldName(h, szFileName, internalIndex) ==
    IF szFileName \in Range(h.added)
    THEN [ h EXCEPT !.flag = TRUE,
                    !.added = EraseFirst(@, szFileName) ]
    ELSE IF internalIndex # NoItem
         THEN [ h EXCEPT !.marker = internalIndex ]
         ELSE h

\* RenameItem.  stat: what SHParseDisplayName / GetItemInformation find for
\* the new name.
RenameItem(ds, internalIndex, szNewFileName, stat) ==
    IF internalIndex = NoItem THEN ds
    ELSE IF stat = Absent THEN ds
    ELSE LET replaced ==
                 [ ds EXCEPT !.map = MapPut(@, internalIndex,
                                 [name |-> szNewFileName, size |-> stat]) ]
         IN  IF internalIndex \notin ds.list
             THEN UnfilterItem(replaced, internalIndex)
             ELSE replaced

\* OnFileRenamedNewName.
OnFileRenamedNewName(h, szFileName, stat, infoOk) ==
    IF h.flag
    THEN [ OnFileAdded(h, szFileName, stat, infoOk) EXCEPT !.flag = FALSE ]
    ELSE [ h EXCEPT !.ds = RenameItem(@, h.marker, szFileName, stat) ]

\* -------------------------------------------------------- event ingress
AlteredFile(Action, FileName, iFolderIndex) ==
    [ dwAction |-> Action, szFileName |-> FileName, iFolderIndex |-> iFolderIndex ]

\* FilesModified as it would be without the SetTimer call (line 161 left out).
FilesModified_NoTimer(Action, FileName, iFolderIndex) ==
    /\ submitsLeft > 0
    /\ m_csDirectoryAltered = "free"
    /\ timerSet' = timerSet
    /\ m_AlteredList' = Append(m_AlteredList, AlteredFile(Action, FileName, iFolderIndex))
    /\ submitsLeft' = submitsLeft - 1
    /\ UNCHANGED << fs, m_uniqueFolderId, m_csDirectoryAltered, pc, itr, storeVars,
                    m_FilesAdded, renameVars, selectionVars, recording, handled >>

\* FilesModified (producer): under the critical section, arm the timer and
\* append the event.  The watcher tags the event with the folder index it was
\* started for, which may be an earlier one than the current.
FilesModified(Action, FileName, iFolderIndex) ==
    /\ submitsLeft > 0
    /\ m_csDirectoryAltered = "free"
    /\ timerSet' = TRUE
    /\ m_AlteredList' = Append(m_AlteredList, AlteredFile(Action, FileName, iFolderIndex))
    /\ submitsLeft' = submitsLeft - 1
    /\ UNCHANGED << fs, m_uniqueFolderId, m_csDirectoryAltered, pc, itr, storeVars,
                    m_FilesAdded, renameVars, selectionVars, recording, handled >>

\* The watcher of the current folder reports a change.
SubmitCurrent ==
    \E Action \in Actions, FileName \in Names :
        FilesModified(Action, FileName, m_uniqueFolderId)

\* The watcher reports a change other than a rename.
SubmitSizes ==
    \E Action \in {"ADDED", "MODIFIED", "REMOVED"}, FileName \in Names :
        FilesModified(Action, FileName, m_uniqueFolderId)

\* The watcher reports a file added or removed.
SubmitAddRemove ==
    \E Action \in {"ADDED", "REMOVED"}, FileName \in Names :
        FilesModified(Action, FileName, m_uniqueFolderId)

\* The watcher reports a file added or one of the two events of a rename; an
\* event of a rename may come without the other (the watcher's buffer
\* overflowed).  The reports of the run all come before the first of them is
\* handled, so that they make one batch.
SubmitRename ==
    /\ handled = << >>
    /\ \E Action \in {"ADDED", "RENAMED_OLD_NAME", "RENAMED_NEW_NAME"}, FileName \in Names :
          FilesModified(Action, FileName, m_uniqueFolderId)

\* The watcher reports a change other than the old name of a rename.
SubmitNoRenamedFrom ==
    \E Action \in Actions \ {"RENAMED_OLD_NAME"}, FileName \in Names :
        FilesModified(Action, FileName, m_uniqueFolderId)

\* A watcher reports a change; the watcher may be one of an earlier folder.
SubmitAny ==
    \E Action \in Actions, FileName \in Names, iFolderIndex \in 1 .. m_uniqueFolderId :
        FilesModified(Action, FileName, iFolderIndex)

\* The watcher reports, by one FilesModified call per event, the changes a
\* program has just made to the directory.
Notify(events) ==
    /\ submitsLeft >= Len(events)
    /\ m_csDirectoryAltered = "free"
    /\ timerSet' = TRUE
    /\ m_AlteredList' = m_AlteredList \o events
    /\ submitsLeft' = submitsLeft - Len(events)
    /\ UNCHANGED << m_uniqueFolderId, m_csDirectoryAltered, pc, itr, storeVars,
                    m_FilesAdded, renameVars, selectionVars, recording, handled >>

\* A program creates, deletes, renames or resizes a file of the directory; the
\* watcher reports each change as it is made, in the order of the changes.
CreateFile ==
    \E name \in Names, size \in Sizes :
        /\ fs[name] = Absent
        /\ fs' = [fs EXCEPT ![name] = size]
        /\ Notify(<< AlteredFile("ADDED", name, m_uniqueFolderId) >>)

DeleteFile ==
    \E name \in Names :
        /\ fs[name] # Absent
        /\ fs' = [fs EXCEPT ![name] = Absent]
        /\ Notify(<< AlteredFile("REMOVED", name, m_uniqueFolderId) >>)

RenameFile ==
    \E old \in Names, new \in Names :
        /\ fs[old] # Absent /\ fs[new] = Absent
        /\ fs' = [fs EXCEPT ![old] = Absent, ![new] = fs[old]]
        /\ Notify(<< AlteredFile("RENAMED_OLD_NAME", old, m_uniqueFolderId),
                     AlteredFile("RENAMED_NEW_NAME", new, m_uniqueFolderId) >>)

ResizeFile ==
    \E name \in Names, size \in Sizes :
        /\ fs[name] # Absent /\ fs[name] # size
        /\ fs' = [fs EXCEPT ![name] = size]
        /\ Notify(<< AlteredFile("MODIFIED", name, m_uniqueFolderId) >>)

\* TimerProc: kill the timer and send WM_USER_FILESADDED to the owner.
TimerProc ==
    /\ pc = "idle"
    /\ timerSet
    /\ timerSet' = FALSE
    /\ pc' = "signalled"
    /\ UNCHANGED << fs, m_uniqueFolderId, m_AlteredList, m_csDirectoryAltered, itr,
                    submitsLeft, storeVars, m_FilesAdded, renameVars, selectionVars,
                    recording, handled >>

\* DirectoryAltered, entry: EnterCriticalSection, then start the loop.
DirectoryAlteredBegin ==
    /\ pc = "signalled"
    /\ m_csDirectoryAltered = "free"
    /\ m_csDirectoryAltered' = "consumer"
    /\ pc' = "loop"
    /\ itr' = 1
    /\ UNCHANGED << fs, m_uniqueFolderId, m_AlteredList, timerSet, submitsLeft,
                    storeVars, m_FilesAdded, renameVars, selectionVars,
                    recording, handled >>

\* The loop of DirectoryAltered is at an event.
InLoop == pc = "loop" /\ itr <= Len(m_AlteredList)

af == m_AlteredList[itr]

\* The dispatch as it would be without the comparison of folder indices
\* (line 55 left out).
Dispatch_AnyFolder(Action) ==
    /\ pc = "loop" /\ itr <= Len(m_AlteredList)
    /\ m_AlteredList[itr].dwAction = Action

\* The loop is at an event of the current folder with this action.
Dispatch(Action) ==
    /\ InLoop
    /\ af.iFolderIndex = m_uniqueFolderId
    /\ af.dwAction = Action

\* One iteration of the loop leaves these alone and moves to the next event.
\* The history (in the runs that keep it) records the event, whether it was
\* dispatched, what the disk held for its name when its handler started,
\* whether the item's information could then be read, and the directory total
\* and m_FilesAdded before the handler.
NextEvent(applied, infoOk) ==
    /\ itr' = itr + 1
    /\ handled' = IF recording
                  THEN Append(handled, [ af |-> af, applied |-> applied,
                                         stat |-> fs[af.szFileName], ok |-> infoOk,
                                         total |-> totalDirSize,
                                         pending |-> m_FilesAdded ])
                  ELSE handled
    /\ UNCHANGED << m_uniqueFolderId, m_AlteredList, timerSet, m_csDirectoryAltered,
                    pc, submitsLeft, selectionVars, recording >>

\* An event of another folder index is skipped.
SkipStale ==
    /\ InLoop
    /\ af.iFolderIndex # m_uniqueFolderId
    /\ NextEvent(FALSE, TRUE)
    /\ UNCHANGED << fs, storeVars, m_FilesAdded, renameVars >>

\* The file is on disk when its name is parsed; it may vanish before its
\* information is read.
Resolve(name, infoOk) ==
    /\ (~infoOk) => fs[name] # Absent
    /\ fs' = IF infoOk THEN fs ELSE [fs EXCEPT ![name] = Absent]

ApplyAdded ==
    /\ Dispatch("ADDED")
    /\ \E infoOk \in BOOLEAN :
          /\ Resolve(af.szFileName, infoOk)
          /\ SetHState(OnFileAdded(HState, af.szFileName, fs[af.szFileName], infoOk))
          /\ NextEvent(TRUE, infoOk)

ApplyModified ==
    /\ Dispatch("MODIFIED")
    /\ \E iItem \in LocateFileItemIndex(DirState, af.szFileName) :
          SetHState(OnFileModified(HState, af.szFileName, iItem, fs[af.szFileName]))
    /\ NextEvent(TRUE, TRUE)
    /\ UNCHANGED fs

ApplyRemoved ==
    /\ Dispatch("REMOVED")
    /\ \E iItemInternal \in LocateFileItemInternalIndex(DirState, af.szFileName) :
          SetHState(OnFileRemoved(HState, af.szFileName, iItemInternal))
    /\ NextEvent(TRUE, TRUE)
    /\ UNCHANGED fs

ApplyRenamedOldName ==
    /\ Dispatch("RENAMED_OLD_NAME")
    /\ \E internalIndex \in GetItemInternalIndexForPidl(DirState, af.szFileName) :
          SetHState(OnFileRenamedOldName(HState, af.szFileName, internalIndex))
    /\ NextEvent(TRUE, TRUE)
    /\ UNCHANGED fs

ApplyRenamedNewName ==
    /\ Dispatch("RENAMED_NEW_NAME")
    /\ \E infoOk \in BOOLEAN :
          /\ infoOk \/ g_bNewFileRenamed
          /\ Resolve(af.szFileName, infoOk)
          /\ SetHState(OnFileRenamedNewName(HState, af.szFileName, fs[af.szFileName], infoOk))
          /\ NextEvent(TRUE, infoOk)

\* The ADDED and RENAMED_NEW_NAME cases when the directory changes only by the
\* reported changes: no file vanishes between the parse of its name and the
\* read of its information.
ApplyAddedSettled ==
    /\ Dispatch("ADDED")
    /\ Resolve(af.szFileName, TRUE)
    /\ SetHState(OnFileAdded(HState, af.szFileName, fs[af.szFileName], TRUE))
    /\ NextEvent(TRUE, TRUE)

ApplyRenamedNewNameSettled ==
    /\ Dispatch("RENAMED_NEW_NAME")
    /\ Resolve(af.szFileName, TRUE)
    /\ SetHState(OnFileRenamedNewName(HState, af.szFileName, fs[af.szFileName], TRUE))
    /\ NextEvent(TRUE, TRUE)

\* The selection loop as it would be without the erase of a resolved name
\* (line 136 reading `++itr`).
RECURSIVE SelectionLoop_KeepsResolvedNames(_, _, _)
SelectionLoop_KeepsResolvedNames(list, loc, acc) ==
    IF list = << >> THEN acc
    ELSE LET name == Head(list)
             iIndex == loc[name]
         IN  IF iIndex # NoItem
             THEN SelectionLoop_KeepsResolvedNames(Tail(list), loc,
                    [ acc EXCEPT !.ds = SelectItem(@, iIndex),
                                 !.calls[name] = @ + 1,
                                 !.focus = IF acc.bFocusSet THEN @ ELSE @ + 1,
                                 !.bFocusSet = TRUE,
                                 !.remaining = Append(@, name) ])
             ELSE SelectionLoop_KeepsResolvedNames(Tail(list), loc,
                    [ acc EXCEPT !.remaining = Append(@, name) ])

\* The selection loop at the end of DirectoryAltered.  loc[name] is what
\* LocateFileItemIndex returns for the name.
RECURSIVE SelectionLoop(_, _, _)
SelectionLoop(list, loc, acc) ==
    IF list = << >> THEN acc
    ELSE LET name == Head(list)
             iIndex == loc[name]
         IN  IF iIndex # NoItem
             THEN SelectionLoop(Tail(list), loc,
                    [ acc EXCEPT !.ds = SelectItem(@, iIndex),
                                 !.calls[name] = @ + 1,
                                 !.focus = IF acc.bFocusSet THEN @ ELSE @ + 1,
                                 !.bFocusSet = TRUE ])
             ELSE SelectionLoop(Tail(list), loc,
                    [ acc EXCEPT !.remaining = Append(@, name) ])

\* DirectoryAltered after the loop as it would be without the clearing of the
\* list (line 112 left out).
DirectoryAlteredEnd_KeepsList ==
    /\ pc = "loop"
    /\ itr > Len(m_AlteredList)
    /\ m_AlteredList' = m_AlteredList
    /\ \E loc \in [Names -> listView \cup {NoItem}] :
          /\ \A n \in Names : loc[n] \in LocateFileItemIndex(DirState, n)
          /\ LET done == SelectionLoop(m_FileSelectionList, loc,
                            [ ds |-> DirState, calls |-> selectCalls, focus |-> 0,
                              bFocusSet |-> FALSE, remaining |-> << >> ])
             IN  /\ SetDirState(done.ds)
                 /\ selectCalls' = done.calls
                 /\ focusCalls' = done.focus
                 /\ m_FileSelectionList' = done.remaining
    /\ m_csDirectoryAltered' = "free"
    /\ pc' = "idle"
    /\ itr' = 1
    /\ UNCHANGED << fs, m_uniqueFolderId, timerSet, submitsLeft, nRequested,
                    m_FilesAdded, renameVars, recording, handled >>

\* DirectoryAltered, after the loop: clear the list, resolve the selection
\* requests, LeaveCriticalSection.
DirectoryAlteredEnd ==
    /\ pc = "loop"
    /\ itr > Len(m_AlteredList)
    /\ m_AlteredList' = << >>
    /\ \E loc \in [Names -> listView \cup {NoItem}] :
          /\ \A n \in Names : loc[n] \in LocateFileItemIndex(DirState, n)
          /\ LET done == SelectionLoop(m_FileSelectionList, loc,
                            [ ds |-> DirState, calls |-> selectCalls, focus |-> 0,
                              bFocusSet |-> FALSE, remaining |-> << >> ])
             IN  /\ SetDirState(done.ds)
                 /\ selectCalls' = done.calls
                 /\ focusCalls' = done.focus
                 /\ m_FileSelectionList' = done.remaining
    /\ m_csDirectoryAltered' = "free"
    /\ pc' = "idle"
    /\ itr' = 1
    /\ UNCHANGED << fs, m_uniqueFolderId, timerSet, submitsLeft, nRequested,
                    m_FilesAdded, renameVars, recording, handled >>

\* ------------------------------------------------------ UI-thread requests
\* The user navigates to another folder: the folder index advances.
NavigateToDirectory ==
    /\ pc = "idle"
    /\ m_uniqueFolderId < MaxEpoch
    /\ m_uniqueFolderId' = m_uniqueFolderId + 1
    /\ UNCHANGED << fs, ingressVars, storeVars, m_FilesAdded, renameVars, selectionVars,
                    handled >>

\* A name is queued for selection (after a paste or a drop).
RequestSelection ==
    /\ pc = "idle"
    /\ nRequested < MaxRequests
    /\ \E name \in Names :
          /\ name \notin Range(m_FileSelectionList)
          /\ m_FileSelectionList' = Append(m_FileSelectionList, name)
    /\ nRequested' = nRequested + 1
    /\ UNCHANGED << fs, m_uniqueFolderId, ingressVars, storeVars, m_FilesAdded,
                    renameVars, selectCalls, focusCalls, handled >>

\* ------------------------------------------------- a second ShellBrowser
\* Another ShellBrowser (another tab) of the process handles a RenamedFrom in
\* its own DirectoryAltered, on the same UI thread and so between the batches
\* of this one.  Its OnFileRenamedOldName writes the same two globals: the
\* name is in its m_FilesAdded ("pending"), or is one of its items, or neither.
OtherRenamedOldName ==
    /\ pc = "idle"
    /\ \/ /\ ~g_bNewFileRenamed
          /\ g_bNewFileRenamed' = TRUE
          /\ g_iRenamedItem' = g_iRenamedItem
       \/ /\ \E internalIndex \in 1 .. MaxOtherItems :
                /\ internalIndex # g_iRenamedItem
                /\ g_iRenamedItem' = internalIndex
          /\ g_bNewFileRenamed' = g_bNewFileRenamed
    /\ UNCHANGED << fs, m_uniqueFolderId, ingressVars, storeVars, m_FilesAdded,
                    selectionVars, handled >>

\* The other ShellBrowser handles a RenamedTo: its OnFileRenamedNewName clears
\* the flag when it is set and otherwise renames one of its own items.
OtherRenamedNewName ==
    /\ pc = "idle"
    /\ g_bNewFileRenamed
    /\ g_bNewFileRenamed' = FALSE
    /\ UNCHANGED << fs, m_uniqueFolderId, ingressVars, storeVars, m_FilesAdded,
                    g_iRenamedItem, selectionVars, handled >>

\* The UI thread's part of the reconciliation of the current folder's events.
Consumer ==
    \/ TimerProc
    \/ DirectoryAlteredBegin
    \/ ApplyAdded
    \/ ApplyModified
    \/ ApplyRemoved
    \/ ApplyRenamedOldName
    \/ ApplyRenamedNewName
    \/ DirectoryAlteredEnd

\* One folder, every kind of event, the directory changing freely on disk.
Next ==
    \/ FsChange
    \/ SubmitCurrent
    \/ Consumer

Spec == Init /\ [][Next]_vars

\* As Spec, with the user navigating to other folders while watchers of
\* earlier folders still report.
InitEpoch == Constructed /\ submitsLeft = MaxEpochEvents /\ recording = FALSE

NextEpoch ==
    \/ FsChange
    \/ SubmitAny
    \/ Consumer
    \/ SkipStale
    \/ NavigateToDirectory

SpecEpoch == InitEpoch /\ [][NextEpoch]_vars

\* As SpecEpoch, keeping the history of the handled events.
InitEpochHistory == Constructed /\ submitsLeft = MaxEpochEvents /\ recording = TRUE

SpecEpochHistory == InitEpochHistory /\ [][NextEpoch]_vars

\* The UI thread's part when no RenamedFrom is reported to this ShellBrowser.
ConsumerNoRenamedFrom ==
    \/ TimerProc
    \/ DirectoryAlteredBegin
    \/ ApplyAdded
    \/ ApplyModified
    \/ ApplyRemoved
    \/ ApplyRenamedNewName
    \/ DirectoryAlteredEnd

\* Two ShellBrowsers: this one is never reported a RenamedFrom, the other one
\* handles rename events of its own folder between the batches of this one.
InitTwo == Constructed /\ submitsLeft = MaxTwoEvents /\ recording = FALSE

NextTwo ==
    \/ FsChange
    \/ SubmitNoRenamedFrom
    \/ ConsumerNoRenamedFrom
    \/ OtherRenamedOldName
    \/ OtherRenamedNewName

SpecTwo == InitTwo /\ [][NextTwo]_vars

\* The directory is changed by programs while the UI thread reconciles; every
\* change is reported, in order, and nothing else changes the directory.
ConsumerSettled ==
    \/ TimerProc
    \/ DirectoryAlteredBegin
    \/ ApplyAddedSettled
    \/ ApplyModified
    \/ ApplyRemoved
    \/ ApplyRenamedOldName
    \/ ApplyRenamedNewNameSettled
    \/ DirectoryAlteredEnd

InitConverge == Constructed /\ submitsLeft = MaxConvergeEvents /\ recording = FALSE

NextConverge ==
    \/ CreateFile
    \/ DeleteFile
    \/ RenameFile
    \/ ResizeFile
    \/ ConsumerSettled

SpecConverge == InitConverge /\ [][NextConverge]_vars

\* As SpecHistory, with the timer expiring and the UI thread running: a
\* timer that is set fires once the UI thread is back in its message loop, and
\* DirectoryAltered, once started, runs to its end.  The producer is under no
\* obligation to submit.
InitLive == Constructed /\ submitsLeft = MaxLiveEvents /\ recording = TRUE

SpecLive == InitLive /\ [][Next]_vars /\ WF_vars(Consumer)

\* Files are added and renamed only; the history is kept.
ConsumerRename ==
    \/ TimerProc
    \/ DirectoryAlteredBegin
    \/ ApplyAdded
    \/ ApplyRenamedOldName
    \/ ApplyRenamedNewName
    \/ DirectoryAlteredEnd

InitRename == Constructed /\ submitsLeft = MaxRenameEvents /\ recording = TRUE

NextRename ==
    \/ FsPresence
    \/ SubmitRename
    \/ ConsumerRename

SpecRename == InitRename /\ [][NextRename]_vars

\* As Spec, with names queued for selection.
InitSelect == Constructed /\ submitsLeft = MaxSelectEvents /\ recording = FALSE

NextSelect ==
    \/ FsChange
    \/ SubmitCurrent
    \/ Consumer
    \/ RequestSelection

SpecSelect == InitSelect /\ [][NextSelect]_vars

\* As Spec, keeping the history of the handled events.
InitHistory == Constructed /\ submitsLeft = MaxHistoryEvents /\ recording = TRUE

SpecHistory == InitHistory /\ [][Next]_vars

\* The UI thread's part when no rename is reported.
ConsumerNoRename ==
    \/ TimerProc
    \/ DirectoryAlteredBegin
    \/ ApplyAdded
    \/ ApplyModified
    \/ ApplyRemoved
    \/ DirectoryAlteredEnd

\* Files are added, modified and removed, never renamed.
InitSizes == Constructed /\ submitsLeft = MaxAddRemoveEvents /\ recording = FALSE

NextSizes ==
    \/ FsChange
    \/ SubmitSizes
    \/ ConsumerNoRename

SpecSizes == InitSizes /\ [][NextSizes]_vars

\* Files are added and removed only; the history is kept.
ConsumerAddRemove ==
    \/ TimerProc
    \/ DirectoryAlteredBegin
    \/ ApplyAdded
    \/ ApplyRemoved
    \/ DirectoryAlteredEnd

InitAddRemove == Constructed /\ submitsLeft = MaxAddRemoveEvents /\ recording = TRUE

NextAddRemove ==
    \/ FsChange
    \/ SubmitAddRemove
    \/ ConsumerAddRemove

SpecAddRemove == InitAddRemove /\ [][NextAddRemove]_vars

\* ================================================================ claims
NamesIn(map) == { map[i].name : i \in DOMAIN map }

ItemsNamed(map, name) == { i \in DOMAIN map : map[i].name = name }

RECURSIVE SumSizesOver(_, _)
SumSizesOver(map, ids) ==
    IF ids = {} THEN U64Zero
    ELSE LET i == CHOOSE i \in ids : TRUE
         IN  U64Add(U64(map[i].size), SumSizesOver(map, ids \ {i}))

SumSizes(map) == SumSizesOver(map, DOMAIN map)

\* C1: with only Added, Modified and Removed events, whatever the disk holds
\* at each query, after each completed batch totalDirSize is the sum of the
\* stored sizes of the items in m_itemInfoMap.
C1_TotalSizeIsSumOfStoredSizes ==
    pc = "idle" => totalDirSize = SumSizes(m_itemInfoMap)

\* C1 witness: every event of the run is handled, a Modified found its file
\* gone (a stored size of 0), a Removed took an item out, and an item remains.
C1_Witness ==
    /\ pc = "idle" /\ submitsLeft = 0 /\ m_AlteredList = << >>
    /\ \E i \in DOMAIN m_itemInfoMap : m_itemInfoMap[i].size = 0
    /\ Cardinality(DOMAIN m_itemInfoMap) < itemIdCounter - 1

\* The history is Added(a), RenamedFrom(a), RenamedTo(b), nothing else: a was
\* not on disk when Added(a) was handled, b was when RenamedTo(b) was.
FastRenameRun(a, b) ==
    /\ a # b
    /\ Len(handled) = 3
    /\ \A i \in 1 .. 3 : handled[i].applied
    /\ handled[1].af.dwAction = "ADDED" /\ handled[1].af.szFileName = a
    /\ handled[1].stat = Absent
    /\ handled[2].af.dwAction = "RENAMED_OLD_NAME" /\ handled[2].af.szFileName = a
    /\ handled[3].af.dwAction = "RENAMED_NEW_NAME" /\ handled[3].af.szFileName = b
    /\ handled[3].stat # Absent /\ handled[3].ok

\* C2: after Added(a) handled with a not on disk, then RenamedFrom(a), then
\* RenamedTo(b) with b on disk (in one batch or several), exactly one item is
\* named b, none is named a, and m_FilesAdded is empty.
C2_FastRenameAddsNewName ==
    \A a, b \in Names :
        FastRenameRun(a, b)
        => /\ Cardinality(ItemsNamed(m_itemInfoMap, b)) = 1
           /\ ItemsNamed(m_itemInfoMap, a) = {}
           /\ m_FilesAdded = << >>

\* C2 witness: the three events were handled in two batches, and the item
\* made for the new name is in the list view.
C2_Witness ==
    /\ \E a, b \in Names : FastRenameRun(a, b)
    /\ pc = "loop" /\ itr = 3 /\ Len(m_AlteredList) = 2
    /\ listView # {}

\* C3: when RenamedFrom(x) is handled and x is neither in m_FilesAdded nor the
\* name of an item, the rename marker and the fast-rename flag are clear
\* afterwards; and a RenamedTo handled with both clear changes no item and
\* creates none.
C3_UnknownRenameFromClearsMarker ==
    [][ /\ ( /\ Dispatch("RENAMED_OLD_NAME")
             /\ af.szFileName \notin Range(m_FilesAdded)
             /\ af.szFileName \notin NamesIn(m_itemInfoMap)
             /\ itr' = itr + 1 )
           => ( g_iRenamedItem' = NoItem /\ g_bNewFileRenamed' = FALSE )
        /\ ( /\ Dispatch("RENAMED_NEW_NAME")
             /\ g_iRenamedItem = NoItem /\ ~g_bNewFileRenamed
             /\ itr' = itr + 1 )
           => UNCHANGED << m_itemInfoMap, listView, m_FilesAdded >>
      ]_vars

\* The last two events handled, both of the batch being processed, are
\* Added(f) and Modified(f); both found f on disk, with different sizes, and f
\* names one item.
AddedThenModified(f) ==
    /\ pc = "loop" /\ itr >= 3 /\ Len(handled) >= 2
    /\ LET added == handled[Len(handled) - 1]
           modified == handled[Len(handled)]
       IN  /\ added.af.dwAction = "ADDED" /\ added.af.szFileName = f
           /\ modified.af.dwAction = "MODIFIED" /\ modified.af.szFileName = f
           /\ added.stat # Absent /\ added.ok
           /\ modified.stat # Absent
           /\ modified.stat # added.stat
    /\ Cardinality(ItemsNamed(m_itemInfoMap, f)) = 1

\* C5: after Added(f) and Modified(f) handled in one batch, f changing size on
\* disk in between, the stored size of f is the size Modified found and
\* totalDirSize is its value before Added(f) plus that size; the item is in
\* the list view.
C5_ModifiedAfterAddedCountsOnce ==
    \A f \in Names :
        AddedThenModified(f)
        => LET id == CHOOSE i \in ItemsNamed(m_itemInfoMap, f) : TRUE
               added == handled[Len(handled) - 1]
               modified == handled[Len(handled)]
           IN  /\ m_itemInfoMap[id].size = modified.stat
               /\ totalDirSize = U64Add(added.total, U64(modified.stat))
               /\ id \in listView

\* C5 witness: the case above, in a directory whose total was not 0 before.
C5_Witness ==
    \E f \in Names :
        /\ AddedThenModified(f)
        /\ handled[Len(handled) - 1].total # U64Zero

\* The list view shows an item of this name.
Locatable(name) == \E i \in listView : m_itemInfoMap[i].name = name

RECURSIVE SumOver(_, _)
SumOver(f, S) ==
    IF S = {} THEN 0
    ELSE LET x == CHOOSE x \in S : TRUE IN f[x] + SumOver(f, S \ {x})

\* C6: a requested name stays in m_FileSelectionList over every batch at whose
\* end no item of that name is in the list view; the batch at whose end one is
\* selects it with one SelectItem call and takes the name out of the list; a
\* batch gives the focus once if it resolves any name, else not at all; and
\* every request made is either still in the list or was answered by exactly
\* one SelectItem call.
C6_SelectionRequestsResolvedOnce ==
    /\ [] ( SumOver(selectCalls, Names) + Len(m_FileSelectionList) = nRequested )
    /\ [][ IF pc = "loop" /\ pc' = "idle"
            THEN /\ \A n \in Range(m_FileSelectionList) :
                        IF Locatable(n)
                        THEN /\ n \notin Range(m_FileSelectionList')
                             /\ selectCalls'[n] = selectCalls[n] + 1
                             /\ \E i \in selected' : m_itemInfoMap'[i].name = n
                        ELSE /\ n \in Range(m_FileSelectionList')
                             /\ selectCalls'[n] = selectCalls[n]
                 /\ \A n \in Names \ Range(m_FileSelectionList) :
                        selectCalls'[n] = selectCalls[n]
                 /\ focusCalls' =
                        IF \E n \in Range(m_FileSelectionList) : Locatable(n)
                        THEN 1 ELSE 0
            ELSE /\ selectCalls' = selectCalls
                 /\ Range(m_FileSelectionList) \subseteq Range(m_FileSelectionList')
         ]_vars

\* C6 witness: a batch ends with one requested name not in the list view while
\* the other requested name was selected, once, by an earlier batch.
C6_Witness ==
    /\ pc = "loop" /\ itr > Len(m_AlteredList)
    /\ nRequested = 2
    /\ \E n \in Names :
          /\ m_FileSelectionList = << n >>
          /\ ~Locatable(n)
          /\ \E o \in Names \ {n} :
                /\ selectCalls[o] = 1
                /\ \E i \in selected : m_itemInfoMap[i].name = o

\* The net effect of the first k events of a history of Added and Removed
\* events, on sets of names: the names shown, the names whose add is pending,
\* and whether every Added so far was for a name neither shown nor pending.
RECURSIVE NetEffect(_, _)
NetEffect(h, k) ==
    IF k = 0 THEN [ items |-> {}, pending |-> {}, distinct |-> TRUE ]
    ELSE LET prev == NetEffect(h, k - 1)
             name == h[k].af.szFileName
             fresh == name \notin prev.items \cup prev.pending
         IN  IF h[k].af.dwAction = "ADDED"
             THEN IF h[k].stat = Absent
                  THEN [ prev EXCEPT !.pending = @ \cup {name},
                                     !.distinct = @ /\ fresh ]
                  ELSE IF h[k].ok
                  THEN [ prev EXCEPT !.items = @ \cup {name},
                                     !.distinct = @ /\ fresh ]
                  ELSE [ prev EXCEPT !.distinct = @ /\ fresh ]
             ELSE [ prev EXCEPT !.items = @ \ {name},
                                !.pending = @ \ {name} ]

\* C7: after a history of Added and Removed events in which no name is added
\* while it is shown or pending, the names of the items are the net effect of
\* the events in order, one item per name, and m_FilesAdded holds the names
\* pending, once each; so a Removed of a name neither shown nor pending
\* changes neither.
C7_ItemsAreNetEffect ==
    LET net == NetEffect(handled, Len(handled))
    IN  net.distinct
        => /\ NamesIn(m_itemInfoMap) = net.items
           /\ Cardinality(DOMAIN m_itemInfoMap) = Cardinality(net.items)
           /\ Range(m_FilesAdded) = net.pending
           /\ Len(m_FilesAdded) = Cardinality(net.pending)

\* C7 witness: a name was added, removed, and removed again; another item is
\* shown at the end.
C7_Witness ==
    /\ Len(handled) = 4
    /\ NetEffect(handled, 4).distinct
    /\ handled[1].af.dwAction = "ADDED" /\ handled[1].stat # Absent /\ handled[1].ok
    /\ handled[2].af.dwAction = "REMOVED"
    /\ handled[3].af.dwAction = "REMOVED"
    /\ handled[2].af.szFileName = handled[1].af.szFileName
    /\ handled[3].af.szFileName = handled[1].af.szFileName
    /\ m_itemInfoMap # << >>

\* C8: no name is twice in m_FilesAdded.
C8_LedgerNamesUnique ==
    \A i, j \in DOMAIN m_FilesAdded :
        m_FilesAdded[i] = m_FilesAdded[j] => i = j

\* C9: when the loop has just handled a RenamedTo of the current folder, the
\* rename marker g_iRenamedItem is empty.
C9_MarkerEmptyAfterRenamedTo ==
    ( /\ pc = "loop" /\ itr > 1
      /\ m_AlteredList[itr - 1].dwAction = "RENAMED_NEW_NAME"
      /\ m_AlteredList[itr - 1].iFolderIndex = m_uniqueFolderId )
    => g_iRenamedItem = NoItem

\* C10: the consumer does not own m_csDirectoryAltered while a handler that
\* queries the filesystem or works on the list view is about to run, so
\* FilesModified can enter the critical section during the reconciliation.
C10_LockNotHeldAcrossHandlers ==
    ~ ( /\ m_csDirectoryAltered = "consumer"
        /\ InLoop
        /\ af.iFolderIndex = m_uniqueFolderId )

\* C4: an event whose folder index differs from m_uniqueFolderId when the loop
\* reaches it changes neither the items, the pending adds, the totals, the
\* rename marker nor the fast-rename flag; the loop moves on to the events
\* after it.
C4_StaleEventsDiscarded ==
    [][ ( InLoop /\ af.iFolderIndex # m_uniqueFolderId )
        => ( /\ UNCHANGED << m_itemInfoMap, awaitingAddList, listView, selected,
                             m_FilesAdded, totalDirSize, fileSelectionSize,
                             g_bNewFileRenamed, g_iRenamedItem >>
             /\ itr' = itr + 1
             /\ pc' = "loop" )
      ]_vars

\* C4 witness: in one batch, an event of an earlier folder was passed over and
\* the Added event of the current folder after it has created an item.
C4_Witness ==
    /\ pc = "loop" /\ itr = 3
    /\ m_AlteredList[1].iFolderIndex # m_uniqueFolderId
    /\ m_AlteredList[1].dwAction = "ADDED"
    /\ m_AlteredList[2].iFolderIndex = m_uniqueFolderId
    /\ m_AlteredList[2].dwAction = "ADDED"
    /\ itemIdCounter = 2
    /\ m_FilesAdded = << >>
    /\ NamesIn(m_itemInfoMap) = { m_AlteredList[2].szFileName }

\* A counter that the subtraction of a size larger than itself has wrapped
\* around: the sizes of all the items a run can create sum to less than one
\* limb, so a counter holding more has passed below zero modulo 2^64.
Wrapped(counter) == counter[2] # 0 \/ counter[3] # 0 \/ counter[4] # 0

\* C11: totalDirSize and fileSelectionSize never pass below zero: no
\* subtraction of a stored size by OnFileModified or RemoveItem takes more
\* than the counter holds (or the counter is set to zero instead), so neither
\* counter ever holds a value wrapped around modulo 2^64.
C11_CountersNeverWrap ==
    ~Wrapped(totalDirSize) /\ ~Wrapped(fileSelectionSize)

\* C12: while events of the batch remain to be handled, the handler of an
\* Added event puts nothing into the list view (the awaiting items go in
\* together once the loop is over).
C12_NoInsertBeforeBatchEnd ==
    [][ ( Dispatch("ADDED") /\ itr < Len(m_AlteredList) /\ itr' = itr + 1 )
        => listView' = listView
      ]_vars

\* C13: the handler of RenamedTo, when the fast-rename flag is clear, adds no
\* internal id to m_itemInfoMap and changes no item other than the one the
\* marker holds.
C13_RenameAddsNoId ==
    [][ ( Dispatch("RENAMED_NEW_NAME") /\ ~g_bNewFileRenamed /\ itr' = itr + 1 )
        => /\ DOMAIN m_itemInfoMap' \subseteq DOMAIN m_itemInfoMap
           /\ \A i \in DOMAIN m_itemInfoMap \ {g_iRenamedItem} :
                 i \in DOMAIN m_itemInfoMap' /\ m_itemInfoMap'[i] = m_itemInfoMap[i]
      ]_vars

\* C17: when the handler of RenamedTo replaces an item's information, the
\* directory total changes by what the sum of the stored sizes changes by.
C17_RenameKeepsTotalInStep ==
    [][ ( Dispatch("RENAMED_NEW_NAME") /\ ~g_bNewFileRenamed /\ itr' = itr + 1 )
        => U64Sub(totalDirSize', SumSizes(m_itemInfoMap'))
             = U64Sub(totalDirSize, SumSizes(m_itemInfoMap))
      ]_vars

\* The history has an applied RenamedFrom of folder index e.
RenamedFromAppliedIn(e) ==
    \E i \in DOMAIN handled :
        /\ handled[i].applied
        /\ handled[i].af.iFolderIndex = e
        /\ handled[i].af.dwAction = "RENAMED_OLD_NAME"

\* C14: a RenamedTo of the current folder index, handled when no RenamedFrom
\* of that folder index has been applied, finds no marker and no fast-rename
\* flag to act on (what an earlier folder index left is not used): it renames
\* no item, creates none and leaves m_FilesAdded alone.
C14_RenameStateStaysInEpoch ==
    [][ ( /\ Dispatch("RENAMED_NEW_NAME")
          /\ ~RenamedFromAppliedIn(m_uniqueFolderId)
          /\ itr' = itr + 1 )
        => UNCHANGED << m_itemInfoMap, listView, m_FilesAdded >>
      ]_vars

\* C18: every event FilesModified appended is handled exactly once and in the
\* order of the appends.  The events handled so far and the events of the list
\* from the loop's position on are together the events submitted; the list
\* changes only by an append at its end or by the clearing of a list the loop
\* has walked to its end; the loop handles the event at its position, records
\* it as applied exactly when its folder index is the current one, and moves
\* one event on.
C18_EachEventHandledOnceInOrder ==
    /\ [] ( Len(handled) + Len(m_AlteredList) - (itr - 1) = MaxEpochEvents - submitsLeft )
    /\ [][ /\ m_AlteredList' # m_AlteredList
              => /\ handled' = handled
                 /\ \/ /\ Len(m_AlteredList') = Len(m_AlteredList) + 1
                       /\ SubSeq(m_AlteredList', 1, Len(m_AlteredList)) = m_AlteredList
                       /\ itr' = itr
                    \/ /\ m_AlteredList' = << >>
                       /\ itr = Len(m_AlteredList) + 1
           /\ handled' # handled
              => /\ InLoop
                 /\ Len(handled') = Len(handled) + 1
                 /\ SubSeq(handled', 1, Len(handled)) = handled
                 /\ handled'[Len(handled')].af = m_AlteredList[itr]
                 /\ handled'[Len(handled')].applied
                      = (m_AlteredList[itr].iFolderIndex = m_uniqueFolderId)
                 /\ itr' = itr + 1
                 /\ m_AlteredList' = m_AlteredList
           /\ itr' # itr
              => \/ handled' # handled
                 \/ itr' = 1 /\ m_AlteredList' = << >>
         ]_vars

\* C18 witness: three events were submitted, the second while the UI thread
\* was between TimerProc and DirectoryAltered, the third after the first batch;
\* all three are handled, one of them discarded for its folder index.
C18_Witness ==
    /\ Len(handled) = 3 /\ submitsLeft = 0
    /\ pc = "idle" /\ m_AlteredList = << >>
    /\ \E i \in 1 .. 3 : ~handled[i].applied
    /\ \E i \in 1 .. 3 : handled[i].applied

\* C15: what another ShellBrowser handles does not change what this one does.
\* This ShellBrowser is reported no RenamedFrom, so by its own events its
\* marker is empty and its fast-rename flag clear whenever it handles a
\* RenamedTo, and the RenamedTo is dropped: with the other ShellBrowser
\* handling rename events in between, the RenamedTo still changes neither
\* m_itemInfoMap, the list view nor m_FilesAdded.
C15_OtherInstanceDoesNotInterfere ==
    [][ ( Dispatch("RENAMED_NEW_NAME") /\ itr' = itr + 1 )
        => UNCHANGED << m_itemInfoMap, listView, m_FilesAdded >>
      ]_vars

\* The names of the files on disk.
NamesOnDisk == { n \in Names : fs[n] # Absent }

\* C16: when every reported change has been handled (the list is empty and
\* DirectoryAltered has returned), the names of the items are the names of the
\* files on disk, no two items have the same name, and m_FilesAdded is empty.
C16_ItemsConvergeToDisk ==
    ( pc = "idle" /\ m_AlteredList = << >> )
    => /\ NamesIn(m_itemInfoMap) = NamesOnDisk
       /\ \A i, j \in DOMAIN m_itemInfoMap :
             m_itemInfoMap[i].name = m_itemInfoMap[j].name => i = j
       /\ m_FilesAdded = << >>

\* C19: no event stays in the list with the timer not set and no batch under
\* way; and, the timer and the UI thread being fair, from some point on the
\* list is empty, the critical section free, DirectoryAltered not running,
\* and every event submitted has been handled.
C19_DebounceLiveness ==
    /\ [] ( ( pc = "idle" /\ m_AlteredList # << >> ) => timerSet )
    /\ <>[] ( /\ m_AlteredList = << >>
              /\ m_csDirectoryAltered = "free"
              /\ pc = "idle"
              /\ Len(handled) = MaxLiveEvents - submitsLeft )

\* C19 witness: every event of the run was submitted and handled; the list is
\* empty, the critical section free and no timer left set.
C19_Witness ==
    /\ submitsLeft = 0 /\ Len(handled) = MaxLiveEvents
    /\ m_AlteredList = << >> /\ m_csDirectoryAltered = "free"
    /\ pc = "idle" /\ ~timerSet

\* The event handled last was RenamedFrom(x), x then being the name of an item
\* and not in m_FilesAdded (OnFileRenamedOldName changes no item, so x names an
\* item now exactly if it did then).
LastWasRenamedFromOfItem(x) ==
    /\ Len(handled) > 0
    /\ LET last == handled[Len(handled)]
       IN  /\ last.applied
           /\ last.af.dwAction = "RENAMED_OLD_NAME"
           /\ last.af.szFileName = x
           /\ x \notin Range(last.pending)
    /\ x \in NamesIn(m_itemInfoMap)

\* C20: when RenamedTo(y) is handled right after RenamedFrom(x), x having been
\* the name of an item and not in m_FilesAdded, and y is on disk, then an item
\* that was named x is named y under its id and the ids of the items are the
\* same as before, whatever was handled before the RenamedFrom.
C20_RenameOfItemKeepsItemCount ==
    [][ \A x \in Names :
          ( /\ LastWasRenamedFromOfItem(x)
            /\ Dispatch("RENAMED_NEW_NAME")
            /\ fs[af.szFileName] # Absent
            /\ fs' = fs
            /\ itr' = itr + 1 )
          => /\ DOMAIN m_itemInfoMap' = DOMAIN m_itemInfoMap
             /\ \E id \in ItemsNamed(m_itemInfoMap, x) :
                   m_itemInfoMap'[id].name = af.szFileName
      ]_vars

====
